---- MODULE Spec2Model ----
(***************************************************************************)
(* Max-value entropy search candidate generation                           *)
(* (ax/models/torch/botorch_mes.py): MaxValueEntropySearch.gen and the     *)
(* acquisition builder _instantiate_MES, as a state machine that walks     *)
(* through one gen call statement by statement.                            *)
(*                                                                         *)
(* Conventions.                                                            *)
(*  - An Optional value is a set with at most one element: None is {} and  *)
(*    a present value v is {v}.                                            *)
(*  - A Python dict is a function; dict.get is Get / GetOpt.               *)
(*  - A tensor of points is a sequence of points; a point is a function    *)
(*    from Dims to a coordinate.  Coordinates are stored in half units     *)
(*    (the stored integer 3 is the real number 1.5), so that rounding to   *)
(*    an integer is not the identity.                                      *)
(*  - Objective weights, fidelity weights and the cost intercept take      *)
(*    integer values (1 is the float 1.0).                                 *)
(***************************************************************************)
EXTENDS Integers, Sequences, FiniteSets, TLC

\* ------------------------------------------------------------------ bounds
\* largest batch size n tried
MaxN == 2
\* largest length of objective_weights tried
MaxOutcomes == 2
\* largest number of initially pending points
MaxPending == 1

\* ------------------------------------------------------- program constants
DefaultNumFantasies == 16
DefaultNumMvSamples == 10
DefaultNumYSamples == 128
DefaultCandidateSize == 1000
DefaultNumRestarts == 40
DefaultRawSamples == 1024
DefaultNumTraceObservations == 0

\* --------------------------------------------------------- Python helpers
None == {}
Some(v) == {v}
The(o) == CHOOSE v \in o : TRUE

EmptyDict == [k \in {} |-> k]
\* d.get(k, default)
Get(d, k, default) == IF k \in DOMAIN d THEN d[k] ELSE default
\* d.get(k): None when the key is absent
GetOpt(d, k) == IF k \in DOMAIN d THEN Some(d[k]) ELSE None
\* the dicts that either lack key k or map it to one of vals
Entry(k, vals) == {EmptyDict} \cup {k :> v : v \in vals}
\* the dicts with key set K and values in vals
Dicts(K, vals) == [K -> vals]
\* {k: v for k, v in d.items() if k in keep}
Restrict(d, keep) == [k \in (DOMAIN d) \cap keep |-> d[k]]

\* ------------------------------------------------------------ input domain
\* dimensions of the search space
Dims == {0, 1}
\* values an objective weight takes
Weights == {-1, 1, 2}
\* objective_weights: one weight per outcome
WeightVectors == UNION {[1..k -> Weights] : k \in 0..MaxOutcomes}

\* per-dimension (lower, upper) bounds, in half units
UnitBox == [d \in Dims |-> <<0, 2>>]
ShiftedBox == (0 :> <<0, 2>>) @@ (1 :> <<2, 4>>)
NarrowBox == (0 :> <<0, 1>>) @@ (1 :> <<2, 2>>)
BoundsChoices == {UnitBox, ShiftedBox}
Coords == 0..4
Points == [Dims -> Coords]
\* already-pending points of the objective outcome
PendingPoints == {[d \in Dims |-> 0], [d \in Dims |-> 1]}
PendingChoices ==
    {None} \cup {Some(s) : s \in UNION {[1..k -> PendingPoints] : k \in 0..MaxPending}}
\* fidelity_weights dicts over every key set
FidelityWeightDicts == UNION {Dicts(K, {1, 2}) : K \in SUBSET Dims}
\* target_values dicts over every key set (a target value is a coordinate)
TargetValueDicts == UNION {Dicts(K, {2}) : K \in SUBSET Dims}
Cross(A, B) == {a @@ b : a \in A, b \in B}

\* the plain call: one maximised objective, no constraints, no options
BaseArgs ==
    [n |-> 1,
     bounds |-> NarrowBox,
     fidelity_features |-> {},
     target_values |-> EmptyDict,
     objective_weights |-> <<1>>,
     linear_constraints |-> None,
     outcome_constraints |-> None,
     pending_observations |-> None,
     fixed_features |-> None,
     rounding_func |-> None,
     model_gen_options |-> None]

\* calls that vary what the validation phase reads
ValidationArgs ==
    {[BaseArgs EXCEPT !.n = n, !.linear_constraints = lc, !.outcome_constraints = oc,
                      !.objective_weights = w, !.model_gen_options = o] :
        n \in 1..MaxN, lc \in {None, Some("A")}, oc \in {None, Some("C")},
        w \in WeightVectors, o \in {None, Some("subset_model" :> FALSE)}}

\* calls that vary the fidelity configuration
FidelityArgs ==
    {[BaseArgs EXCEPT !.fidelity_features = ff, !.target_values = tv,
                      !.objective_weights = w, !.model_gen_options = Some(o)] :
        ff \in SUBSET Dims, tv \in TargetValueDicts, w \in {<<1>>, <<-1>>},
        o \in Cross(Entry("fidelity_weights", FidelityWeightDicts),
                    Entry("num_trace_observations", {2}))}

\* acquisition_function_kwargs dicts
AcfDicts ==
    Cross(Cross(Cross(Entry("num_fantasies", {4}), Entry("num_mv_samples", {5})),
                Cross(Entry("num_y_samples", {6}), Entry("candidate_size", {7}))),
          Cross(Cross(Entry("subset_model", {FALSE}),
                      Entry("fidelity_weights", {0 :> 1, 1 :> 3})),
                Entry("num_trace_observations", {3})))
\* optimizer_kwargs dicts
OptimizerDicts ==
    Cross(Cross(Entry("num_restarts", {8}), Entry("raw_samples", {9})),
          Entry("options", {"maxiter" :> 50}))
\* model_gen_options dicts
OptionDicts ==
    Cross(Cross(Cross(Entry("subset_model", BOOLEAN), Entry("fidelity_weights", {1 :> 2})),
                Entry("num_trace_observations", {2})),
          Cross(Entry("acquisition_function_kwargs", AcfDicts),
                Entry("optimizer_kwargs", OptimizerDicts)))

\* calls that vary the options bag, on a search space with one fidelity feature
OptionArgs ==
    {[BaseArgs EXCEPT !.fidelity_features = {1}, !.target_values = 1 :> 2,
                      !.model_gen_options = Some(o)] : o \in OptionDicts}

\* fixed_features dicts (values inside every box of BoundsChoices)
FixedChoices == {None, Some(0 :> 2)}

\* calls that vary what the optimizer reads
BatchArgs ==
    {[BaseArgs EXCEPT !.n = n, !.bounds = b, !.pending_observations = p,
                      !.fixed_features = f, !.rounding_func = r] :
        n \in 1..MaxN, b \in BoundsChoices, p \in PendingChoices,
        f \in FixedChoices, r \in {None, Some("round")}}

GenArgs == ValidationArgs \cup FidelityArgs \cup OptionArgs \cup BatchArgs

\* cost_intercept values given to __init__ (1 is the default 1.0)
CostIntercepts == {1, 2}

\* ------------------------------------------------------------------- state
VARIABLES
    pc,                 \* position in gen
    self,               \* the MaxValueEntropySearch object: model, cost_intercept
    args,               \* n, search_space_digest and torch_opt_config of the call
    err,                \* the exception the call ended with, if any
    options,            \* local: torch_opt_config.model_gen_options or {}
    acf_options,        \* local: options["acquisition_function_kwargs"]
    optimizer_options,  \* local: options["optimizer_kwargs"]
    X_pending,          \* local: pending points returned by the helper
    model,              \* local: the model handed to the builder
    objective_weights,  \* local: the weights after (optional) subsetting
    hyper,              \* locals num_fantasies .. raw_samples
    opt_options,        \* local: the solver options handed to optimize_acqf
    candidate_set,      \* local: the sampled candidate set
    acq_function,       \* local: what _instantiate_MES returned
    candidates,         \* points chosen so far by optimize_acqf
    seen,               \* the pending set the acquisition function held at each step
    calls,              \* call counts of the collaborators
    mes_call,           \* the arguments _instantiate_MES was last called with
    bp,                 \* the _get_best_point_acqf call: position, arguments, outcome
    result              \* the TorchGenResults returned

vars == <<pc, self, args, err, options, acf_options, optimizer_options, X_pending,
          model, objective_weights, hyper, opt_options, candidate_set, acq_function,
          candidates, seen, calls, mes_call, bp, result>>

locals == <<options, acf_options, optimizer_options, X_pending, model,
            objective_weights, hyper, opt_options, candidate_set, acq_function,
            candidates, seen, mes_call, result>>

NoCalls == [pending |-> 0, subset |-> 0, sampler |-> 0, builder |-> 0, optimizer |-> 0]

\* the fitted surrogate model
Fitted == [name |-> "surrogate", version |-> 0]

\* the _get_best_point_acqf call before it is entered
NoBestPointCall == [pc |-> "idle", args |-> EmptyDict, err |-> None, delegated |-> None]

\* MaxValueEntropySearch.__init__, optionally followed by fit: self.model is None
\* until the model is fitted, and fit records the fidelity features
Init ==
    /\ pc = "idle"
    /\ \E c \in CostIntercepts :
          \/ self = [model |-> Some(Fitted), fidelity_features |-> {1},
                     cost_intercept |-> c]
          \/ self = [model |-> None, fidelity_features |-> {}, cost_intercept |-> c]
    /\ bp = NoBestPointCall
    /\ args = BaseArgs
    /\ err = None
    /\ options = EmptyDict
    /\ acf_options = EmptyDict
    /\ optimizer_options = EmptyDict
    /\ X_pending = None
    /\ model = None
    /\ objective_weights = << >>
    /\ hyper = EmptyDict
    /\ opt_options = EmptyDict
    /\ candidate_set = None
    /\ acq_function = None
    /\ candidates = << >>
    /\ seen = << >>
    /\ calls = NoCalls
    /\ mes_call = None
    /\ result = None

\* ------------------------------------------------------------------- gen
\* gen(n, search_space_digest, torch_opt_config) is entered, on a fitted model and
\* while no other call is running
Call ==
    /\ pc = "idle"
    /\ bp.pc = "idle"
    /\ self.model # None
    /\ \E a \in GenArgs : args' = a
    /\ pc' = "check_constraints"
    /\ UNCHANGED <<bp, self, err, locals, calls>>

\* the condition of the first check
ConstraintsPresentLinearOnly(cfg) == cfg.linear_constraints # None
ConstraintsPresent(cfg) ==
    cfg.linear_constraints # None \/ cfg.outcome_constraints # None

\* if linear_constraints is not None or outcome_constraints is not None: raise
CheckConstraints ==
    /\ pc = "check_constraints"
    /\ IF ConstraintsPresent(args)
         THEN pc' = "raised" /\ err' = Some("UnsupportedError")
         ELSE pc' = "check_objectives" /\ err' = err
    /\ UNCHANGED <<bp, self, args, locals, calls>>

\* the condition of the second check
MultipleOutcomesOffByOne(w) == Len(w) > 2
MultipleOutcomes(w) == Len(w) > 1

\* if len(objective_weights) > 1: raise
CheckObjectives ==
    /\ pc = "check_objectives"
    /\ IF MultipleOutcomes(args.objective_weights)
         THEN pc' = "raised" /\ err' = Some("UnsupportedError")
         ELSE pc' = "read_options" /\ err' = err
    /\ UNCHANGED <<bp, self, args, locals, calls>>

\* options = model_gen_options or {}; the two nested option dicts
ReadOptions ==
    /\ pc = "read_options"
    /\ LET o == IF args.model_gen_options = None THEN EmptyDict
                ELSE The(args.model_gen_options)
       IN /\ options' = o
          /\ acf_options' = Get(o, "acquisition_function_kwargs", EmptyDict)
          /\ optimizer_options' = Get(o, "optimizer_kwargs", EmptyDict)
    /\ pc' = "get_X_pending"
    /\ UNCHANGED <<bp, self, args, err, X_pending, model, objective_weights, hyper, opt_options,
                   candidate_set, acq_function, candidates, seen, calls, mes_call, result>>

\* what a helper of ax.models.torch.utils does with the weights it is given:
\* it returns, or (given no objective at all) it may fail with an error of its own
HelperOutcomes(w) == IF Len(w) = 0 THEN {"ok", "ValueError"} ELSE {"ok"}

\* the X_pending that _get_X_pending_and_observed returns: the pending points of
\* the objective outcome, None when there are none
get_X_pending(pending_observations) ==
    IF pending_observations = None \/ The(pending_observations) = << >>
    THEN None ELSE pending_observations

\* X_pending, X_observed = _get_X_pending_and_observed(...)
GetXPendingAndObserved ==
    /\ pc = "get_X_pending"
    /\ calls' = [calls EXCEPT !.pending = @ + 1]
    /\ \E out \in HelperOutcomes(args.objective_weights) :
          IF out = "ok"
          THEN /\ X_pending' = get_X_pending(args.pending_observations)
               /\ pc' = "subset_model"
               /\ err' = err
          ELSE /\ X_pending' = X_pending
               /\ pc' = "raised"
               /\ err' = Some(out)
    /\ UNCHANGED <<bp, self, args, options, acf_options, optimizer_options, model,
                   objective_weights, hyper, opt_options, candidate_set, acq_function,
                   candidates, seen, mes_call, result>>

\* subset_model(model, objective_weights, outcome_constraints=None): a new view of
\* the model on the outcomes with a non-zero weight, and their weights
subset_model(m, w) ==
    [model |-> [m EXCEPT !.subset = Some({i \in 1..Len(w) : w[i] # 0})],
     objective_weights |-> SelectSeq(w, LAMBDA x : x # 0)]

\* options.get("subset_model", True)
SubsetModelOptionFromAcf(opts, acf) == Get(acf, "subset_model", TRUE)
SubsetModelOption(opts, acf) == Get(opts, "subset_model", TRUE)

\* model = subset_model_results.model rebinds the local name only: the object keeps
\* the model it was fitted with
StoredModelRebound(stored, view) == Some(view)
StoredModel(stored, view) == stored

\* model = self.model; subset it to the outcomes needed unless switched off
SubsetModel ==
    /\ pc = "subset_model"
    /\ LET m == [surrogate |-> self.model, subset |-> None]
       IN IF SubsetModelOption(options, acf_options)
          THEN /\ calls' = [calls EXCEPT !.subset = @ + 1]
               /\ \E out \in HelperOutcomes(args.objective_weights) :
                     IF out = "ok"
                     THEN /\ model' = Some(subset_model(m, args.objective_weights).model)
                          /\ self' = [self EXCEPT !.model =
                                         StoredModel(self.model,
                                             subset_model(m, args.objective_weights).model)]
                          /\ objective_weights' =
                                 subset_model(m, args.objective_weights).objective_weights
                          /\ pc' = "sample"
                          /\ err' = err
                     ELSE /\ UNCHANGED <<self, model, objective_weights>>
                          /\ pc' = "raised"
                          /\ err' = Some(out)
          ELSE /\ model' = Some(m)
               /\ objective_weights' = args.objective_weights
               /\ pc' = "sample"
               /\ UNCHANGED <<self, err, calls>>
    /\ UNCHANGED <<bp, args, options, acf_options, optimizer_options, X_pending,
                   hyper, opt_options, candidate_set, acq_function, candidates, seen, mes_call, result>>

\* the acquisition and optimizer hyperparameters and their defaults
NumFantasiesOption(opts, acf) == Get(acf, "num_fantasies", DefaultNumFantasies)
NumMvSamplesOption(opts, acf) == Get(acf, "num_mv_samples", DefaultNumMvSamples)
NumYSamplesOption(opts, acf) == Get(acf, "num_y_samples", DefaultNumYSamples)
CandidateSizeOption(opts, acf) == Get(acf, "candidate_size", DefaultCandidateSize)
NumRestartsOption(opt) == Get(opt, "num_restarts", DefaultNumRestarts)
RawSamplesOption(opt) == Get(opt, "raw_samples", DefaultRawSamples)

\* bounds_[0] + (bounds_[1] - bounds_[0]) * torch.rand(candidate_size, d):
\* candidate_size uniform draws in the box (the draws themselves are not kept)
sample_candidate_set(candidate_size, bounds) ==
    [size |-> candidate_size, bounds |-> bounds]

\* read the hyperparameters and draw the candidate set
SampleCandidateSet ==
    /\ pc = "sample"
    /\ hyper' = [num_fantasies |-> NumFantasiesOption(options, acf_options),
                 num_mv_samples |-> NumMvSamplesOption(options, acf_options),
                 num_y_samples |-> NumYSamplesOption(options, acf_options),
                 candidate_size |-> CandidateSizeOption(options, acf_options),
                 num_restarts |-> NumRestartsOption(optimizer_options),
                 raw_samples |-> RawSamplesOption(optimizer_options)]
    /\ candidate_set' =
           Some(sample_candidate_set(CandidateSizeOption(options, acf_options),
                                     args.bounds))
    /\ calls' = [calls EXCEPT !.sampler = @ + 1]
    /\ pc' = "instantiate"
    /\ UNCHANGED <<bp, self, args, err, options, acf_options, optimizer_options, opt_options,
                   X_pending, model, objective_weights, acq_function, candidates,
                   seen, mes_call, result>>

\* ------------------------------------------------------- _instantiate_MES
RECURSIVE SortedSeq(_)
\* sorted(S)
SortedSeq(S) ==
    IF S = {} THEN << >>
    ELSE LET m == CHOOSE x \in S : \A y \in S : x <= y
         IN <<m>> \o SortedSeq(S \ {m})

\* {f: 1.0 for f in target_fidelities}
DefaultFidelityWeightsEmpty(target_fidelities) == EmptyDict
DefaultFidelityWeights(target_fidelities) == [f \in DOMAIN target_fidelities |-> 1]

\* set(target_fidelities) == set(fidelity_weights)
SameIndicesSubsetOnly(target_fidelities, fidelity_weights) ==
    DOMAIN fidelity_weights \subseteq DOMAIN target_fidelities
SameIndices(target_fidelities, fidelity_weights) ==
    DOMAIN target_fidelities = DOMAIN fidelity_weights

\* what the call leaves behind when it raises: nothing was constructed
Raised(error) ==
    [kind |-> error, raised |-> TRUE, model |-> None, candidate_set |-> None,
     num_fantasies |-> 0, num_mv_samples |-> 0, num_y_samples |-> 0,
     X_pending |-> None, maximize |-> FALSE, cost_aware_utility |-> None,
     project |-> None, expand |-> None]

instantiate_MES(m, cset, num_fantasies, num_mv_samples, num_y_samples, Xp, maximize, num_trace_observations, target_fidelities, fidelity_weights, cost_intercept) ==
    IF DOMAIN target_fidelities # {}
    THEN LET fw == IF fidelity_weights = None
                   THEN DefaultFidelityWeights(target_fidelities)
                   ELSE The(fidelity_weights)
         IN IF ~ SameIndices(target_fidelities, fw)
            THEN Raised("RuntimeError")
            ELSE [kind |-> "qMultiFidelityMaxValueEntropy", raised |-> FALSE,
                  model |-> m, candidate_set |-> cset,
                  num_fantasies |-> num_fantasies,
                  num_mv_samples |-> num_mv_samples,
                  num_y_samples |-> num_y_samples,
                  X_pending |-> Xp, maximize |-> maximize,
                  cost_aware_utility |->
                      Some([cost_model |-> [fidelity_weights |-> fw,
                                            fixed_cost |-> cost_intercept]]),
                  project |-> Some([target_fidelities |-> target_fidelities]),
                  expand |-> Some([fidelity_dims |->
                                       SortedSeq(DOMAIN target_fidelities),
                                   num_trace_obs |-> num_trace_observations])]
    ELSE [kind |-> "qMaxValueEntropy", raised |-> FALSE,
          model |-> m, candidate_set |-> cset,
          num_fantasies |-> num_fantasies,
          num_mv_samples |-> num_mv_samples,
          num_y_samples |-> num_y_samples,
          X_pending |-> Xp, maximize |-> maximize,
          cost_aware_utility |-> None, project |-> None, expand |-> None]

\* {k: v for k, v in target_values.items() if k in fidelity_features}
TargetFidelitiesUnfiltered(digest) == digest.target_values
TargetFidelities(digest) == Restrict(digest.target_values, digest.fidelity_features)

\* options.get("num_trace_observations", 0) and options.get("fidelity_weights")
NumTraceObservationsOption(opts, acf) ==
    Get(opts, "num_trace_observations", DefaultNumTraceObservations)
FidelityWeightsOption(opts, acf) == GetOpt(opts, "fidelity_weights")

\* True if objective_weights[0] == 1 else False
Maximize(w) == w[1] = 1

\* the solver defaults, overridden by optimizer_kwargs["options"]: a fresh dict
DefaultOptOptions ==
    [batch_limit |-> 8, maxiter |-> 200, method |-> "L-BFGS-B", nonnegative |-> FALSE]
OptOptions(optimizer_kwargs) == Get(optimizer_kwargs, "options", EmptyDict) @@ DefaultOptOptions

\* acq_function = _instantiate_MES(...), then the solver options
InstantiateMES ==
    /\ pc = "instantiate"
    /\ IF Len(objective_weights) = 0
       THEN \* objective_weights[0] on an empty tensor
            /\ pc' = "raised"
            /\ err' = Some("IndexError")
            /\ UNCHANGED <<acq_function, calls, mes_call, opt_options>>
       ELSE LET acq == instantiate_MES(
                           The(model), The(candidate_set), hyper.num_fantasies,
                           hyper.num_mv_samples, hyper.num_y_samples, X_pending,
                           Maximize(objective_weights),
                           NumTraceObservationsOption(options, acf_options),
                           TargetFidelities(args),
                           FidelityWeightsOption(options, acf_options),
                           self.cost_intercept)
            IN /\ calls' = [calls EXCEPT !.builder = @ + 1]
               /\ mes_call' =
                      Some([maximize |-> Maximize(objective_weights),
                            num_trace_observations |->
                                NumTraceObservationsOption(options, acf_options),
                            target_fidelities |-> TargetFidelities(args),
                            fidelity_weights |->
                                FidelityWeightsOption(options, acf_options)])
               /\ IF acq.raised
                  THEN /\ pc' = "raised"
                       /\ err' = Some(acq.kind)
                       /\ acq_function' = acq_function
                       /\ opt_options' = opt_options
                  ELSE /\ pc' = "optimize"
                       /\ err' = err
                       /\ acq_function' = Some(acq)
                       /\ opt_options' = OptOptions(optimizer_options)
    /\ UNCHANGED <<bp, self, args, options, acf_options, optimizer_options, X_pending,
                   model, objective_weights, hyper, candidate_set, candidates,
                   seen, result>>

\* ------------------------------------------------------------ optimize_acqf
\* round half to even, on a coordinate in half units
RoundCoord(v) ==
    IF v % 2 = 0 THEN v ELSE IF (v - 1) % 4 = 0 THEN v - 1 ELSE v + 1

\* get_rounding_func(rounding_func): None stays None, otherwise the caller's
\* rounding applied to every point
post_processing_func(rounding_func, p) ==
    IF rounding_func = None THEN p ELSE [d \in Dims |-> RoundCoord(p[d])]

\* the points optimize_acqf can return: inside the bounds, fixed features pinned
Feasible(bounds, fixed_features) ==
    {p \in Points :
        /\ \A d \in Dims : bounds[d][1] <= p[d] /\ p[d] <= bounds[d][2]
        /\ fixed_features # None =>
              \A d \in DOMAIN The(fixed_features) : p[d] = The(fixed_features)[d]}

\* torch.cat([base_X_pending, candidates]), or candidates when there is no base
ConditioningSet(base, chosen) ==
    IF base = None THEN Some(chosen) ELSE Some(The(base) \o chosen)

\* the arguments q=n and sequential=True of the optimize_acqf call
BatchSizeOne(n) == 1
BatchSize(n) == n
SequentialOff == FALSE
Sequential == TRUE

\* one step of optimize_acqf: with sequential and q > 1 the next point alone is
\* optimized, post-processed and appended to the acquisition function's pending
\* points; otherwise the q points are optimized jointly
OptimizeAcqf ==
    /\ pc = "optimize"
    /\ LET q == BatchSize(args.n)
           acq == The(acq_function)
           box == Feasible(args.bounds, args.fixed_features)
       IN IF Sequential /\ q > 1
          THEN \E x \in box :
                  LET chosen == Append(candidates,
                                       post_processing_func(args.rounding_func, x))
                  IN /\ candidates' = chosen
                     /\ seen' = Append(seen, acq.X_pending)
                     /\ IF Len(chosen) = q
                        THEN /\ acq_function' = Some([acq EXCEPT !.X_pending = X_pending])
                             /\ pc' = "return"
                        ELSE /\ acq_function' =
                                    Some([acq EXCEPT !.X_pending =
                                              ConditioningSet(X_pending, chosen)])
                             /\ pc' = "optimize"
          ELSE \E xs \in [1..q -> box] :
                  /\ candidates' =
                         [i \in 1..q |-> post_processing_func(args.rounding_func, xs[i])]
                  /\ seen' = <<acq.X_pending>>
                  /\ acq_function' = acq_function
                  /\ pc' = "return"
    /\ calls' = [calls EXCEPT !.optimizer = @ + 1]
    /\ UNCHANGED <<bp, self, args, err, options, acf_options, optimizer_options,
                   X_pending, model, objective_weights, hyper, opt_options, candidate_set,
                   mes_call, result>>

\* torch.ones(n)
Zeros(n) == [i \in 1..n |-> 0]
Ones(n) == [i \in 1..n |-> 1]

\* return TorchGenResults(points=candidates, weights=torch.ones(n))
Return ==
    /\ pc = "return"
    /\ result' = Some([points |-> candidates, weights |-> Ones(args.n)])
    /\ pc' = "done"
    /\ UNCHANGED <<bp, self, args, err, options, acf_options, optimizer_options,
                   X_pending, model, objective_weights, hyper, opt_options, candidate_set,
                   acq_function, candidates, seen, calls, mes_call>>

\* ------------------------------------------------- _get_best_point_acqf
\* the arguments of _get_best_point_acqf
BestPointArgs ==
    [X_observed : {None} \cup {Some(x) : x \in {<< >>, <<[d \in Dims |-> 0]>>}},
     objective_weights : {<<1>>, <<-1>>},
     fixed_features : FixedChoices,
     target_fidelities : {None} \cup {Some(t) : t \in TargetValueDicts},
     outcome_constraints : {None, Some("C")},
     seed_inner : {None, Some(0)},
     qmc : BOOLEAN]

\* the frame of every step of the best-point call
GenIdle ==
    /\ pc = "idle"
    /\ UNCHANGED <<pc, self, args, err, locals, calls>>

\* _get_best_point_acqf(X_observed, objective_weights, ...) is entered while no
\* other call is running
BestPointCall ==
    /\ bp.pc = "idle"
    /\ GenIdle
    /\ \E a \in BestPointArgs : bp' = [bp EXCEPT !.pc = "check", !.args = a]

\* outcome_constraints is not None
OutcomeConstraintsGivenNever(oc) == FALSE
OutcomeConstraintsGiven(oc) == oc # None

\* if outcome_constraints is not None: raise UnsupportedError
BestPointCheck ==
    /\ bp.pc = "check"
    /\ bp' = IF OutcomeConstraintsGiven(bp.args.outcome_constraints)
             THEN [bp EXCEPT !.pc = "raised", !.err = Some("UnsupportedError")]
             ELSE [bp EXCEPT !.pc = "unbox_model"]
    /\ GenIdle

\* not_none(val): raises ValueError if val is None, returns val otherwise
not_none(val) ==
    IF val = None THEN [raised |-> TRUE, val |-> None]
    ELSE [raised |-> FALSE, val |-> val]

\* model=not_none(self.model), the first keyword argument evaluated
BestPointUnboxModel ==
    /\ bp.pc = "unbox_model"
    /\ bp' = IF not_none(self.model).raised
             THEN [bp EXCEPT !.pc = "raised", !.err = Some("ValueError")]
             ELSE [bp EXCEPT !.pc = "unbox_X_observed"]
    /\ GenIdle

\* X_observed=not_none(X_observed)
BestPointUnboxXObserved ==
    /\ bp.pc = "unbox_X_observed"
    /\ bp' = IF not_none(bp.args.X_observed).raised
             THEN [bp EXCEPT !.pc = "raised", !.err = Some("ValueError")]
             ELSE [bp EXCEPT !.pc = "delegate"]
    /\ GenIdle

\* return get_out_of_sample_best_point_acqf(model=..., ..., qmc=qmc)
BestPointDelegate ==
    /\ bp.pc = "delegate"
    /\ bp' = [bp EXCEPT
                !.pc = "done",
                !.delegated =
                    Some([model |-> The(not_none(self.model).val),
                          objective_weights |-> bp.args.objective_weights,
                          outcome_constraints |-> bp.args.outcome_constraints,
                          X_observed |-> The(not_none(bp.args.X_observed).val),
                          seed_inner |-> bp.args.seed_inner,
                          fixed_features |-> bp.args.fixed_features,
                          fidelity_features |-> self.fidelity_features,
                          target_fidelities |-> bp.args.target_fidelities,
                          qmc |-> bp.args.qmc])]
    /\ GenIdle

\* ------------------------------------------------------------ specification
Next ==
    \/ Call
    \/ CheckConstraints
    \/ CheckObjectives
    \/ ReadOptions
    \/ GetXPendingAndObserved
    \/ SubsetModel
    \/ SampleCandidateSet
    \/ InstantiateMES
    \/ OptimizeAcqf
    \/ Return
    \/ BestPointCall
    \/ BestPointCheck
    \/ BestPointUnboxModel
    \/ BestPointUnboxXObserved
    \/ BestPointDelegate

Spec == Init /\ [][Next]_vars

TypeOK == pc \in {"idle", "check_constraints", "check_objectives", "read_options",
                  "get_X_pending", "subset_model", "sample", "instantiate",
                  "optimize", "return", "done", "raised"}

\* ------------------------------------------------------------------ claims
NoConstraints ==
    args.linear_constraints = None /\ args.outcome_constraints = None
Unsupported == pc = "raised" /\ err = Some("UnsupportedError")
NoWorkDone ==
    /\ calls.pending = 0 /\ calls.subset = 0 /\ calls.sampler = 0
    /\ calls.builder = 0 /\ calls.optimizer = 0
    /\ X_pending = None /\ model = None /\ candidate_set = None
InValidate == pc \in {"check_constraints", "check_objectives"}
InBuild == pc \in {"read_options", "get_X_pending", "subset_model", "sample",
                   "instantiate"}
InOptimize == pc \in {"optimize", "return"}

\* C1: a call with linear or outcome constraints, once past the first check, has
\* ended with UnsupportedError, and no pending points were computed, no model was
\* subset and no candidate set was sampled (the sampler call count is 0).
C1_ConstraintsRaiseBeforeAnyWork ==
    (pc # "idle" /\ pc # "check_constraints" /\ ~ NoConstraints)
        => Unsupported /\ NoWorkDone

C1_Witness ==
    /\ Unsupported
    /\ args.linear_constraints = None
    /\ args.outcome_constraints # None
    /\ calls.sampler = 0

\* C2: an unconstrained call with more than one objective weight, once past the
\* second check, has ended with UnsupportedError; it is never in BUILD or OPTIMIZE.
C2_MultipleObjectivesRaise ==
    (NoConstraints /\ Len(args.objective_weights) > 1 /\ pc # "idle" /\ ~ InValidate)
        => Unsupported /\ NoWorkDone

C2_Witness ==
    /\ Unsupported
    /\ NoConstraints
    /\ Len(args.objective_weights) = 2

\* C3: VALIDATE lets a call into BUILD only with exactly one objective weight:
\* whenever the call is past VALIDATE and was not rejected with UnsupportedError
\* before any work, objective_weights has exactly one entry.
C3_OnlyExactlyOneObjectivePasses ==
    (pc # "idle" /\ ~ InValidate /\ Len(args.objective_weights) # 1)
        => Unsupported /\ NoWorkDone

\* the acquisition function was built and the call went on to the optimizer
Built == pc \in {"optimize", "return", "done"}
Acq == The(acq_function)
IsStandard ==
    /\ Acq.kind = "qMaxValueEntropy"
    /\ Acq.cost_aware_utility = None /\ Acq.project = None /\ Acq.expand = None
IsMultiFidelity ==
    /\ Acq.kind = "qMultiFidelityMaxValueEntropy"
    /\ Acq.cost_aware_utility # None /\ Acq.project # None /\ Acq.expand # None
\* the listed fidelity features that have a target value
ListedTargets == args.fidelity_features \cap DOMAIN args.target_values

C5_RaisesIffKeySetsDiffer ==
    (mes_call # None /\ DOMAIN The(mes_call).target_fidelities # {}) =>
        LET tf == The(mes_call).target_fidelities
            fw == The(mes_call).fidelity_weights
            mismatch == fw # None /\ DOMAIN The(fw) # DOMAIN tf
        IN /\ mismatch <=> (pc = "raised" /\ err = Some("RuntimeError"))
           /\ mismatch => acq_function = None
           /\ ~ mismatch => Built /\ err = None /\ IsMultiFidelity

C5_Witness ==
    /\ pc = "raised"
    /\ err = Some("RuntimeError")
    /\ mes_call # None
    /\ The(mes_call).fidelity_weights # None
    /\ DOMAIN The(The(mes_call).fidelity_weights) # {}
    /\ DOMAIN The(The(mes_call).fidelity_weights) # DOMAIN The(mes_call).target_fidelities
    /\ DOMAIN The(The(mes_call).fidelity_weights) \subseteq
           DOMAIN The(mes_call).target_fidelities

\* C6: when the builder is called with non-empty target_fidelities and no
\* fidelity_weights, it does not raise and the multi-fidelity acquisition function
\* it builds has a cost model whose weights are 1.0 on exactly the keys of
\* target_fidelities.
C6_DefaultWeightsAreOne ==
    (/\ mes_call # None
     /\ DOMAIN The(mes_call).target_fidelities # {}
     /\ The(mes_call).fidelity_weights = None) =>
        /\ Built
        /\ err = None
        /\ IsMultiFidelity
        /\ LET fw == The(Acq.cost_aware_utility).cost_model.fidelity_weights
           IN /\ DOMAIN fw = DOMAIN The(mes_call).target_fidelities
              /\ \A f \in DOMAIN fw : fw[f] = 1

C6_Witness ==
    /\ pc = "done"
    /\ The(mes_call).fidelity_weights = None
    /\ Cardinality(DOMAIN The(mes_call).target_fidelities) = 2
    /\ IsMultiFidelity

InBounds(p) ==
    \A d \in Dims : args.bounds[d][1] <= p[d] /\ p[d] <= args.bounds[d][2]

\* C7: a call returns a result only when it is done, and the result then holds
\* exactly n points, each within the per-dimension bounds, and exactly n weights,
\* all equal to 1.0; a call that is not done has returned nothing.
C7_ExactlyNPointsUnitWeights ==
    /\ result # None <=> pc = "done"
    /\ pc = "done" =>
          LET r == The(result)
          IN /\ Len(r.points) = args.n
             /\ Len(r.weights) = args.n
             /\ \A i \in 1..Len(r.weights) : r.weights[i] = 1
             /\ \A i \in 1..Len(r.points) : InBounds(r.points[i])

C7_Witness ==
    /\ pc = "done"
    /\ args.n = MaxN
    /\ args.rounding_func # None
    /\ Len(The(result).points) = MaxN
    /\ NoConstraints /\ Len(args.objective_weights) = 1

\* the number of points in an optional tensor
Size(o) == IF o = None THEN 0 ELSE Len(The(o))
\* the points of an optional tensor
Rows(o) == IF o = None THEN << >> ELSE The(o)
IsRounded(p) == \A d \in Dims : p[d] % 2 = 0

\* C8: in a call with n > 1 the points are chosen one at a time: the k-th
\* optimization saw as pending set the initial pending points followed by exactly
\* the points 1..k-1 already chosen, each as the rounding function left it, so the
\* pending set grew by exactly one point per step.
C8_SequentialConditioning ==
    (args.n > 1 /\ pc \in {"optimize", "return", "done"}) =>
        /\ Len(seen) = Len(candidates)
        /\ Len(candidates) <= args.n
        /\ pc # "optimize" => Len(candidates) = args.n
        /\ \A k \in 1..Len(seen) :
              /\ Rows(seen[k]) = Rows(X_pending) \o SubSeq(candidates, 1, k - 1)
              /\ Size(seen[k]) = Size(X_pending) + (k - 1)
        /\ args.rounding_func # None =>
              \A k \in 1..Len(candidates) : IsRounded(candidates[k])

C8_Witness ==
    /\ pc = "done"
    /\ args.n = MaxN
    /\ args.rounding_func # None
    /\ X_pending # None
    /\ Len(seen) = MaxN
    /\ Size(seen[MaxN]) = Size(X_pending) + MaxN - 1
    /\ candidates[1] # candidates[2]

\* C9: the acquisition function is built with maximize = true when the single
\* objective weight is positive and with maximize = false when it is negative.
C9_SignDecidesDirection ==
    Built =>
        /\ args.objective_weights[1] > 0 => Acq.maximize
        /\ args.objective_weights[1] < 0 => ~ Acq.maximize

\* the options bag as the caller gave it
GivenOptions ==
    IF args.model_gen_options = None THEN EmptyDict ELSE The(args.model_gen_options)
GivenAcf ==
    IF "acquisition_function_kwargs" \in DOMAIN GivenOptions
    THEN GivenOptions["acquisition_function_kwargs"] ELSE EmptyDict
Subsetted == The(model).subset # None

\* the four sampling options are read from acquisition_function_kwargs
AcfKeysHonoured ==
    /\ Acq.num_fantasies =
           IF "num_fantasies" \in DOMAIN GivenAcf
           THEN GivenAcf["num_fantasies"] ELSE DefaultNumFantasies
    /\ Acq.num_mv_samples =
           IF "num_mv_samples" \in DOMAIN GivenAcf
           THEN GivenAcf["num_mv_samples"] ELSE DefaultNumMvSamples
    /\ Acq.num_y_samples =
           IF "num_y_samples" \in DOMAIN GivenAcf
           THEN GivenAcf["num_y_samples"] ELSE DefaultNumYSamples
    /\ The(candidate_set).size =
           IF "candidate_size" \in DOMAIN GivenAcf
           THEN GivenAcf["candidate_size"] ELSE DefaultCandidateSize

\* C10 as stated: all seven options are read from acquisition_function_kwargs.
C10_SevenKeysInAcfKwargs ==
    Built =>
        /\ AcfKeysHonoured
        /\ Subsetted <=>
               (IF "subset_model" \in DOMAIN GivenAcf
                THEN GivenAcf["subset_model"] ELSE TRUE)
        /\ The(mes_call).num_trace_observations =
               IF "num_trace_observations" \in DOMAIN GivenAcf
               THEN GivenAcf["num_trace_observations"]
               ELSE DefaultNumTraceObservations
        /\ The(mes_call).fidelity_weights =
               IF "fidelity_weights" \in DOMAIN GivenAcf
               THEN Some(GivenAcf["fidelity_weights"]) ELSE None

\* C10 amended: num_fantasies, num_mv_samples, num_y_samples and candidate_size
\* are read from acquisition_function_kwargs, while num_trace_observations,
\* fidelity_weights and subset_model are read from the top level of
\* model_gen_options: the value given there is the one used, the default (0, None,
\* True) is used when the key is absent there, and a value given for these three
\* inside acquisition_function_kwargs is ignored.
C10_ThreeKeysAtTopLevel ==
    Built =>
        /\ AcfKeysHonoured
        /\ Subsetted <=>
               (IF "subset_model" \in DOMAIN GivenOptions
                THEN GivenOptions["subset_model"] ELSE TRUE)
        /\ The(mes_call).num_trace_observations =
               IF "num_trace_observations" \in DOMAIN GivenOptions
               THEN GivenOptions["num_trace_observations"]
               ELSE DefaultNumTraceObservations
        /\ The(mes_call).fidelity_weights =
               IF "fidelity_weights" \in DOMAIN GivenOptions
               THEN Some(GivenOptions["fidelity_weights"]) ELSE None
        /\ IsMultiFidelity =>
              The(Acq.expand).num_trace_obs = The(mes_call).num_trace_observations

C10_Witness ==
    /\ pc = "done"
    /\ "subset_model" \in DOMAIN GivenAcf
    /\ "subset_model" \notin DOMAIN GivenOptions
    /\ Subsetted
    /\ "fidelity_weights" \in DOMAIN GivenAcf
    /\ "fidelity_weights" \in DOMAIN GivenOptions
    /\ "candidate_size" \in DOMAIN GivenAcf
    /\ The(candidate_set).size # DefaultCandidateSize

\* C11: no step of gen changes what the caller supplied or what the object stores:
\* self.model and self.cost_intercept keep their values, the arguments of the call
\* (the digest and the optimization config with its model_gen_options and optimizer
\* options) stay as they were given, the local model is a view of the stored model,
\* and a call rejected with UnsupportedError has done no work at all.
C11_GenMutatesNothing ==
    [][/\ self' = self
       /\ pc # "idle" => args' = args
       /\ model' # None => The(model').surrogate = self.model
       /\ Unsupported' => NoWorkDone']_vars

C11_Witness ==
    /\ pc = "done"
    /\ Subsetted
    /\ The(model).surrogate = self.model
    /\ "options" \in DOMAIN optimizer_options
    /\ opt_options.maxiter = 50
    /\ GivenOptions["optimizer_kwargs"]["options"] = ("maxiter" :> 50)

\* C12: a best-point call with outcome_constraints not None ends with
\* UnsupportedError and never delegates; a call with outcome_constraints None never
\* ends with UnsupportedError, and it delegates, passing outcome_constraints None,
\* the stored model and the observed points, exactly when the stored model and the
\* observed points are both not None (otherwise not_none raises ValueError).
C12_BestPointForbidsOutcomeConstraints ==
    (bp.pc # "idle" /\ bp.pc # "check") =>
        LET oc == bp.args.outcome_constraints
            usable == self.model # None /\ bp.args.X_observed # None
        IN /\ oc # None =>
                 /\ bp.pc = "raised"
                 /\ bp.err = Some("UnsupportedError")
                 /\ bp.delegated = None
           /\ oc = None =>
                 /\ bp.err # Some("UnsupportedError")
                 /\ bp.pc = "raised" => bp.err = Some("ValueError") /\ ~ usable
                 /\ bp.pc = "done" => usable
                 /\ bp.pc = "delegate" => usable
           /\ bp.delegated # None <=> bp.pc = "done"
           /\ bp.delegated # None =>
                 /\ The(bp.delegated).outcome_constraints = None
                 /\ Some(The(bp.delegated).model) = self.model
                 /\ Some(The(bp.delegated).X_observed) = bp.args.X_observed

C12_Witness ==
    /\ bp.pc = "done"
    /\ bp.delegated # None
    /\ The(bp.delegated).outcome_constraints = None
    /\ The(bp.delegated).model = Fitted
    /\ The(bp.delegated).target_fidelities # None
    /\ The(bp.delegated).X_observed # << >>

====
